---- MODULE Spec2Model ----
(***************************************************************************)
(* Model of tools/Sea_Day.py: Tools.sea_day and the helpers it calls.      *)
(*                                                                         *)
(* One invocation of sea_day is a linear run through the stages            *)
(*   entry -> time_range -> geocode -> weather -> tide_extremes ->         *)
(*   assemble -> done                                                      *)
(* and ends either by returning a result (outcome = "returned") or by an   *)
(* exception leaving sea_day (outcome = "raised").  Upstream services are  *)
(* the environment: each network call picks its response (a transport      *)
(* failure or a decoded JSON document) nondeterministically.               *)
(*                                                                         *)
(* Assumed of the build: Python >= 3.9 with a tz database (ZoneInfo is not *)
(* None), and the system date does not change during one invocation.       *)
(***************************************************************************)
EXTENDS Integers, Sequences, FiniteSets, TLC

VARIABLES
    storm_key,      \* self.storm_key
    google_key,     \* self.google_key
    arg_date,       \* the date argument as passed
    place,          \* the place argument
    timezone,       \* the timezone argument
    today,          \* what _date.today().isoformat() returns
    pc,             \* the stage sea_day is at
    date,           \* the local variable date
    start_utc,      \* the resolved range
    end_utc,
    resolve_calls,  \* calls of _day_range_to_utc_timestamps so far
    geo_resp,       \* what the geocoding service answered (as drawn)
    geocode_info,   \* what _google_geocode_place returned
    lat,
    lng,
    weather,        \* the decoded weather payload
    extremes,       \* the tide-extremes payload or the inline error
    requests,       \* the network calls issued so far, in order
    outcome,        \* "running", "returned" or "raised"
    exc,            \* the exception class when outcome = "raised"
    result          \* the returned mapping when outcome = "returned"

vars == <<storm_key, google_key, arg_date, place, timezone, today, pc, date,
          start_utc, end_utc, resolve_calls, geo_resp, geocode_info, lat, lng,
          weather, extremes, requests, outcome, exc, result>>

(***************************************************************************)
(* Bounds of the model.                                                    *)
(***************************************************************************)
MaxHours == 3   \* longest "hours" list drawn for the assembly specification
MaxVal == 2     \* numeric samples are 0..MaxVal

(***************************************************************************)
(* Strings.  str.strip() on the strings the model passes around.           *)
(***************************************************************************)
Strip(s) ==
    CASE s = "" -> ""
      [] s = " " -> ""
      [] s = "  " -> ""
      [] s = " sg-key " -> "sg-key"
      [] s = " Keelung " -> "Keelung"
      [] s = " 2024-11-03 " -> "2024-11-03"
      [] OTHER -> s

(***************************************************************************)
(* Calendar and tz database.  Dates are the strings below; EpochDay is the *)
(* day number of each (days since 1970-01-01), i.e. what strptime yields   *)
(* as a naive local midnight, in days.  A zone is its offset before the    *)
(* first listed transition and the list of (UTC instant, new offset)       *)
(* transitions, as the IANA database has them for 2024.                    *)
(***************************************************************************)
SecPerDay == 86400

DateNames == <<"2024-03-10", "2024-06-15", "2024-09-08", "2024-11-03">>
EpochDay == <<19792, 19889, 19974, 20030>>

TzDb ==
    [z \in {"Asia/Taipei", "America/New_York", "America/Havana", "America/Santiago"} |->
        CASE z = "Asia/Taipei" ->
                [init |-> 28800, trans |-> <<>>]
          [] z = "America/New_York" ->
                [init |-> -18000,
                 trans |-> <<[at |-> 1710054000, off |-> -14400],
                             [at |-> 1730613600, off |-> -18000]>>]
          [] z = "America/Havana" ->
                [init |-> -18000,
                 trans |-> <<[at |-> 1710046800, off |-> -14400],
                             [at |-> 1730610000, off |-> -18000]>>]
          [] z = "America/Santiago" ->
                [init |-> -10800,
                 trans |-> <<[at |-> 1712458800, off |-> -14400],
                             [at |-> 1725768000, off |-> -10800]>>]]

ZoneNames == DOMAIN TzDb

\* The offset in force before transition i of zone z (i >= 1).
OffsetBefore(z, i) ==
    IF i = 1 THEN TzDb[z].init ELSE TzDb[z].trans[i - 1].off

MaxOf(a, b) == IF a >= b THEN a ELSE b

\* zoneinfo: utcoffset of an aware UTC instant (fromutc): the offset of the
\* last transition at or before it.
OffsetAtUtc(t, z) ==
    LET n == Cardinality({i \in DOMAIN TzDb[z].trans : TzDb[z].trans[i].at <= t})
    IN  IF n = 0 THEN TzDb[z].init ELSE TzDb[z].trans[n].off

\* zoneinfo: utcoffset of a naive wall time with fold = 0.  A transition counts
\* as passed once the wall time reaches its instant plus the larger of the two
\* offsets around it (bisect_right over the fold-0 wall transition list).
OffsetAtWall(w, z) ==
    LET n == Cardinality({i \in DOMAIN TzDb[z].trans :
                            TzDb[z].trans[i].at
                              + MaxOf(OffsetBefore(z, i), TzDb[z].trans[i].off) <= w})
    IN  IF n = 0 THEN TzDb[z].init ELSE TzDb[z].trans[n].off

\* datetime.strptime(s, "%Y-%m-%d"): the naive midnight in seconds, or ValueError.
strptime(s) ==
    IF \E i \in DOMAIN DateNames : DateNames[i] = s
    THEN [ok |-> TRUE,
          naive |-> EpochDay[CHOOSE i \in DOMAIN DateNames : DateNames[i] = s] * SecPerDay,
          exc |-> ""]
    ELSE [ok |-> FALSE, naive |-> 0, exc |-> "ValueError"]

\* next_day_start_local = day_start_local + timedelta(days=1): wall-clock
\* arithmetic on the naive fields, the zone attached unchanged.
NextDayEndUtcFixed(naive, z) ==
    (naive - OffsetAtWall(naive, z)) + SecPerDay

NextDayEndUtc(naive, z) ==
    (naive + SecPerDay) - OffsetAtWall(naive + SecPerDay, z)

day_range_to_utc_timestamps(date_yyyy_mm_dd, tz_name) ==
    IF tz_name \notin ZoneNames
    THEN [ok |-> FALSE, start |-> 0, end |-> 0, exc |-> "ZoneInfoNotFoundError"]
    ELSE LET p == strptime(date_yyyy_mm_dd)
         IN  IF ~p.ok
             THEN [ok |-> FALSE, start |-> 0, end |-> 0, exc |-> p.exc]
             ELSE [ok |-> TRUE,
                   start |-> p.naive - OffsetAtWall(p.naive, tz_name),
                   end |-> NextDayEndUtc(p.naive, tz_name),
                   exc |-> ""]

(***************************************************************************)
(* Decoded JSON.  A value is [t, n, m]: t its JSON type ("absent" for a    *)
(* key that is not there), n its number (a bool's int value, a numeric     *)
(* string's value), m a mapping's entries in document order, each [k, v]   *)
(* with v a [t, n] value.                                                  *)
(***************************************************************************)
Absent == [t |-> "absent", n |-> 0, m |-> <<>>]
Null == [t |-> "null", n |-> 0, m |-> <<>>]
Num(x) == [t |-> "num", n |-> x, m |-> <<>>]
Bool(b) == [t |-> "bool", n |-> IF b THEN 1 ELSE 0, m |-> <<>>]
Str == [t |-> "str", n |-> 0, m |-> <<>>]
NumStr(x) == [t |-> "numstr", n |-> x, m |-> <<>>]
List == [t |-> "list", n |-> 0, m |-> <<>>]
Map(entries) == [t |-> "map", n |-> 0, m |-> entries]

\* Python values returned by the helpers: None, or a float.
NoneV == [t |-> "None", v |-> 0]
FloatV(x) == [t |-> "float", v |-> x]

\* isinstance(x, (int, float)): JSON numbers, and bool, which subclasses int.
IsIntOrFloat(x) == x.t \in {"num", "bool"}

pick_value(param_obj) ==
    IF IsIntOrFloat(param_obj)
    THEN FloatV(param_obj.n)
    ELSE IF param_obj.t = "map" /\ Len(param_obj.m) > 0
         THEN LET v == param_obj.m[1].v
              IN  IF IsIntOrFloat(v) THEN FloatV(v.n) ELSE NoneV
         ELSE NoneV

\* min(vals), max(vals) of a non-empty list of floats.
MinOfSeq(vals) ==
    CHOOSE x \in {vals[i] : i \in DOMAIN vals} : \A i \in DOMAIN vals : x <= vals[i]

MaxOfSeq(vals) ==
    CHOOSE x \in {vals[i] : i \in DOMAIN vals} : \A i \in DOMAIN vals : x >= vals[i]

safe_minmax(vals) ==
    IF vals = <<>>
    THEN [t |-> "None", min |-> 0, max |-> 0]
    ELSE [t |-> "dict", min |-> MinOfSeq(vals), max |-> MaxOfSeq(vals)]

\* dict.get(key): None for a key that is not there.
Get(field) == IF field.t = "absent" THEN Null ELSE field

(***************************************************************************)
(* The per-hour loop of sea_day.  An "hours" entry is                      *)
(* [body, time, tide, swellHeight, waterTemperature, windSpeed]: body its  *)
(* JSON type, the rest its fields (JSON values).  A time is [t, n]: "iso"  *)
(* an ISO-8601 UTC string of instant n, "str" another non-empty string,    *)
(* "num" a non-zero number, "null"/"absent" nothing.                       *)
(***************************************************************************)
\* Lines 248-257: the local display string, or the raw value when the value
\* is falsy or the conversion raises.
LocalTime(time, tz) ==
    LET raw == IF time.t = "absent" THEN [t |-> "null", n |-> 0] ELSE time
    IN  IF raw.t = "iso"
        THEN [t |-> "local", n |-> raw.n + OffsetAtUtc(raw.n, tz)]
        ELSE raw

HourRecord(h, tz) ==
    [time_local |-> LocalTime(h.time, tz),
     time_utc |-> IF h.time.t = "absent" THEN [t |-> "null", n |-> 0] ELSE h.time,
     tide |-> pick_value(Get(h.tide)),
     swellHeight |-> pick_value(Get(h.swellHeight)),
     waterTemperature |-> pick_value(Get(h.waterTemperature)),
     windSpeed |-> pick_value(Get(h.windSpeed))]

Hourly(items, tz) == [i \in DOMAIN items |-> HourRecord(items[i], tz)]

\* A variant of the accumulation that counts a missing value as zero.
RECURSIVE ValsZero(_, _)
ValsZero(hourly, param) ==
    IF hourly = <<>>
    THEN <<>>
    ELSE <<Head(hourly)[param].v>> \o ValsZero(Tail(hourly), param)

\* The list a parameter's non-None values are appended to, in order.
RECURSIVE Vals(_, _)
Vals(hourly, param) ==
    IF hourly = <<>>
    THEN <<>>
    ELSE (IF Head(hourly)[param].t # "None" THEN <<Head(hourly)[param].v>> ELSE <<>>)
         \o Vals(Tail(hourly), param)

Summary(hourly) ==
    [swellHeight |-> safe_minmax(Vals(hourly, "swellHeight")),
     waterTemperature |-> safe_minmax(Vals(hourly, "waterTemperature")),
     windSpeed |-> safe_minmax(Vals(hourly, "windSpeed"))]

\* Lines 240-246: what iterating `weather.get("hours") or []` does.  The
\* exception that leaves sea_day, or "" when the loop runs to its end.
AssembleExc(w) ==
    IF w.body # "map" THEN "AttributeError"
    ELSE IF w.hours.t = "num" THEN "TypeError"
    ELSE IF w.hours.t = "str" THEN "AttributeError"
    ELSE IF w.hours.t = "list" /\ \E i \in DOMAIN w.hours.items : w.hours.items[i].body # "map"
         THEN "AttributeError"
    ELSE ""

\* The items the loop runs over: a falsy or missing "hours" is the empty list.
HoursOf(w) == IF w.hours.t = "list" THEN w.hours.items ELSE <<>>

(***************************************************************************)
(* Upstream responses.                                                     *)
(*                                                                         *)
(* A geocoding response: raise (transport or decode failure), or a decoded *)
(* document: body its JSON type; status "absent" or the status string;     *)
(* errmsg whether "error_message" is there; results "absent", "null",      *)
(* "empty", "num" or "list" (a non-empty list whose first element has type *)
(* top); geometry and location the types of those fields; lat, lng the     *)
(* JSON values under location.                                             *)
(***************************************************************************)
GeoGood ==
    [raise |-> FALSE, body |-> "map", status |-> "OK", errmsg |-> FALSE,
     results |-> "list", top |-> "map", geometry |-> "map", location |-> "map",
     lat |-> Num(25), lng |-> Num(121), formatted_address |-> "str"]

NoResp == [GeoGood EXCEPT !.body = "none"]

CoordVals == {Absent, Null, Num(25), NumStr(25), Bool(TRUE), Str, List}

GeoResponses ==
    {[GeoGood EXCEPT !.raise = TRUE, !.body = "none"]}
    \cup {[GeoGood EXCEPT !.body = b] : b \in {"list", "null"}}
    \cup {[GeoGood EXCEPT !.status = "absent"],
          [GeoGood EXCEPT !.status = "ZERO_RESULTS", !.results = "empty"],
          [GeoGood EXCEPT !.status = "REQUEST_DENIED", !.errmsg = TRUE, !.results = "empty"]}
    \cup {[GeoGood EXCEPT !.results = r] : r \in {"absent", "null", "empty", "num"}}
    \cup {[GeoGood EXCEPT !.top = t] : t \in {"null", "str"}}
    \cup {[GeoGood EXCEPT !.geometry = g] : g \in {"absent", "null", "str"}}
    \cup {[GeoGood EXCEPT !.location = l] : l \in {"absent", "null", "str"}}
    \cup {[GeoGood EXCEPT !.formatted_address = "absent"]}
    \cup {[GeoGood EXCEPT !.lat = a, !.lng = b] : a \in CoordVals, b \in CoordVals}

\* A weather response: raise, or a decoded document: body its JSON type,
\* hours [t, items] the "hours" field, meta the type of the "meta" field.
IsoTime == [t |-> "iso", n |-> 1730610000]

HourEntry(sw, wt, ws) ==
    [body |-> "map", time |-> IsoTime, tide |-> Absent,
     swellHeight |-> sw, waterTemperature |-> wt, windSpeed |-> ws]

NotAMappingEntry == [HourEntry(Absent, Absent, Absent) EXCEPT !.body = "num"]

WeatherDoc(hours_t, items) ==
    [raise |-> FALSE, body |-> "map", hours |-> [t |-> hours_t, items |-> items],
     meta |-> "map"]

NoWeather == [WeatherDoc("absent", <<>>) EXCEPT !.body = "none"]

SampleA ==
    [HourEntry(Num(1), Map(<<[k |-> "sg", v |-> [t |-> "num", n |-> 18]]>>), Null)
       EXCEPT !.tide = Num(0)]

SampleB ==
    [HourEntry(Null, Num(17), Bool(FALSE))
       EXCEPT !.time = [t |-> "str", n |-> 0]]

WeatherResponses ==
    {[NoWeather EXCEPT !.raise = TRUE]}
    \cup {[WeatherDoc("absent", <<>>) EXCEPT !.body = "list"]}
    \cup {[WeatherDoc("absent", <<>>) EXCEPT !.meta = "absent"]}
    \cup {WeatherDoc(t, <<>>) : t \in {"null", "num", "str", "list"}}
    \cup {WeatherDoc("list", items) :
            items \in {<<SampleA>>, <<SampleA, SampleB>>, <<NotAMappingEntry>>,
                       <<SampleB, NotAMappingEntry>>}}

\* A tide-extremes response: raise, or the decoded document, kept as it is.
TideResponses ==
    {[raise |-> TRUE, payload |-> [none |-> TRUE]],
     [raise |-> FALSE, payload |-> [data |-> "list", meta |-> "map"]],
     [raise |-> FALSE, payload |-> [errors |-> "map"]]}

(***************************************************************************)
(* _google_geocode_place.  Returns whether the request was issued, whether *)
(* an exception leaves the function, and the mapping it returns.           *)
(***************************************************************************)
GeoFail(err) == [ok |-> FALSE, error |-> err]

GeoFailStatus(query, status, err) ==
    [ok |-> FALSE, query |-> query, status |-> status, error |-> err]

GeoOut(requested, exception, info) ==
    [requested |-> requested, raised |-> exception # "", exc |-> exception, info |-> info]

\* Line 99 with `and` for `or`: only a response missing both is refused.
MissingLatLngBoth(la, ln) == la.t = "null" /\ ln.t = "null"

\* Line 99: `if lat is None or lng is None`.
MissingLatLng(la, ln) == la.t = "null" \/ ln.t = "null"

google_geocode_place(place_arg, api_key, resp) ==
    LET q == Strip(place_arg)
        status == IF resp.status = "absent" THEN "UNKNOWN" ELSE resp.status
    IN  IF q = "" THEN GeoOut(FALSE, "", GeoFail("place is required"))
        ELSE IF api_key = ""
        THEN GeoOut(FALSE, "", GeoFail("Missing GOOGLE_MAPS_API_KEY env var"))
        ELSE IF resp.raise THEN GeoOut(TRUE, "", GeoFail("HTTP/parse error"))
        ELSE IF resp.body # "map" THEN GeoOut(TRUE, "AttributeError", GeoFail(""))
        ELSE IF status # "OK"
        THEN GeoOut(TRUE, "",
                    GeoFailStatus(q, status,
                                  IF resp.errmsg THEN "error_message"
                                  ELSE "Geocoding failed: " \o status))
        ELSE IF resp.results \in {"absent", "null", "empty"}
        THEN GeoOut(TRUE, "", GeoFailStatus(q, status, "No results"))
        ELSE IF resp.results = "num" THEN GeoOut(TRUE, "TypeError", GeoFail(""))
        ELSE IF resp.top # "map" THEN GeoOut(TRUE, "AttributeError", GeoFail(""))
        ELSE IF resp.geometry = "str" THEN GeoOut(TRUE, "AttributeError", GeoFail(""))
        ELSE IF resp.geometry = "map" /\ resp.location = "str"
        THEN GeoOut(TRUE, "AttributeError", GeoFail(""))
        ELSE LET has == resp.geometry = "map" /\ resp.location = "map"
                 la == IF has THEN Get(resp.lat) ELSE Null
                 ln == IF has THEN Get(resp.lng) ELSE Null
             IN  IF MissingLatLng(la, ln)
                 THEN GeoOut(TRUE, "",
                             GeoFailStatus(q, status, "Missing lat/lng in response"))
                 ELSE GeoOut(TRUE, "",
                             [ok |-> TRUE, lat |-> la, lng |-> ln,
                              formatted_address |-> resp.formatted_address])

\* float(x): the value, or the exception it raises.
Float(x) ==
    IF x.t \in {"num", "bool", "numstr"} THEN [exc |-> "", v |-> x.n]
    ELSE IF x.t = "str" THEN [exc |-> "ValueError", v |-> 0]
    ELSE [exc |-> "TypeError", v |-> 0]

(***************************************************************************)
(* Tools.sea_day.                                                          *)
(***************************************************************************)
NoResult == [pending |-> TRUE]
NoInfo == [pending |-> TRUE]
NoExtremes == [pending |-> TRUE]

Finish(how, exception, r) ==
    /\ pc' = "done"
    /\ outcome' = how
    /\ exc' = exception
    /\ result' = r

Return(r) == Finish("returned", "", r)
Raise(exception) == Finish("raised", exception, NoResult)

Goto(stage) ==
    /\ pc' = stage
    /\ UNCHANGED <<outcome, exc, result>>

\* Tools.__init__: both keys are read from the environment and stripped.
StormEnv == {"", " ", " sg-key "}
GoogleEnv == {"", "gm-key"}

DateArgs == {"", " ", "tomorrow", "2024-13-40", " 2024-11-03 "}
            \cup {DateNames[i] : i \in DOMAIN DateNames}
PlaceArgs == {"", "  ", " Keelung "}
ZoneArgs == ZoneNames \cup {"Mars/Phobos"}

Idle ==
    /\ pc = "entry"
    /\ date = ""
    /\ start_utc = 0
    /\ end_utc = 0
    /\ resolve_calls = 0
    /\ geo_resp = NoResp
    /\ geocode_info = NoInfo
    /\ lat = 0
    /\ lng = 0
    /\ weather = NoWeather
    /\ extremes = NoExtremes
    /\ requests = <<>>
    /\ outcome = "running"
    /\ exc = ""
    /\ result = NoResult

Init ==
    /\ storm_key \in {Strip(e) : e \in StormEnv}
    /\ google_key \in {Strip(e) : e \in GoogleEnv}
    /\ arg_date \in DateArgs
    /\ place \in PlaceArgs
    /\ timezone \in ZoneArgs
    /\ today \in {DateNames[i] : i \in DOMAIN DateNames}
    /\ Idle

\* Line 186 with the test dropped: the key is never found missing.
MissingStormKeyNever(key) == FALSE

\* Line 186: `if not self.storm_key`.
MissingStormKey(key) == key = ""

\* Lines 182-187: normalise the date, then the marine-data key check.
Entry ==
    /\ pc = "entry"
    /\ date' = IF Strip(arg_date) = "" THEN today ELSE Strip(arg_date)
    /\ IF MissingStormKey(storm_key)
       THEN Return([ok |-> FALSE, error |-> "Missing STORMGLASS_API_KEY env var"])
       ELSE Goto("time_range")
    /\ UNCHANGED <<storm_key, google_key, arg_date, place, timezone, today,
                   start_utc, end_utc, resolve_calls, geo_resp, geocode_info,
                   lat, lng, weather, extremes, requests>>

\* A retry that keeps the date it was given.
FallbackDateSame(d) == d

\* Line 194: the date the retry uses.
FallbackDate(d) == today

\* Lines 190-202: resolve the range, retrying once with the current date.
TimeRange ==
    /\ pc = "time_range"
    /\ LET first == day_range_to_utc_timestamps(date, timezone)
           retry == day_range_to_utc_timestamps(FallbackDate(date), timezone)
       IN  IF first.ok
           THEN /\ start_utc' = first.start
                /\ end_utc' = first.end
                /\ resolve_calls' = resolve_calls + 1
                /\ date' = date
                /\ Goto("geocode")
           ELSE /\ date' = FallbackDate(date)
                /\ resolve_calls' = resolve_calls + 2
                /\ IF retry.ok
                   THEN /\ start_utc' = retry.start
                        /\ end_utc' = retry.end
                        /\ Goto("geocode")
                   ELSE /\ UNCHANGED <<start_utc, end_utc>>
                        /\ Return([ok |-> FALSE, stage |-> "time_range",
                                   error |-> retry.exc])
    /\ UNCHANGED <<storm_key, google_key, arg_date, place, timezone, today,
                   geo_resp, geocode_info, lat, lng, weather, extremes, requests>>

\* Line 211: `if not geocode_info.get("ok")`.
GeocodeFailed(info) == ~info.ok

\* Lines 204-219: geocode the place, then float() both coordinates.
Geocode ==
    /\ pc = "geocode"
    /\ \E resp \in GeoResponses :
         LET g == google_geocode_place(place, google_key, resp)
         IN  /\ geo_resp' = IF g.requested THEN resp ELSE NoResp
             /\ requests' = IF g.requested
                            THEN Append(requests, [to |-> "geocoding", raised |-> resp.raise])
                            ELSE requests
             /\ IF g.raised
                THEN /\ Raise(g.exc)
                     /\ UNCHANGED <<geocode_info, lat, lng>>
                ELSE /\ geocode_info' = g.info
                     /\ IF GeocodeFailed(g.info)
                        THEN /\ Return([ok |-> FALSE, stage |-> "geocoding",
                                        error |-> IF "error" \in DOMAIN g.info
                                                  THEN g.info.error
                                                  ELSE "Geocoding failed",
                                        geocode |-> g.info])
                             /\ UNCHANGED <<lat, lng>>
                        ELSE IF Float(g.info.lat).exc # ""
                        THEN /\ Raise(Float(g.info.lat).exc)
                             /\ UNCHANGED <<lat, lng>>
                        ELSE IF Float(g.info.lng).exc # ""
                        THEN /\ Raise(Float(g.info.lng).exc)
                             /\ lat' = Float(g.info.lat).v
                             /\ lng' = lng
                        ELSE /\ lat' = Float(g.info.lat).v
                             /\ lng' = Float(g.info.lng).v
                             /\ Goto("weather")
    /\ UNCHANGED <<storm_key, google_key, arg_date, place, timezone, today, date,
                   start_utc, end_utc, resolve_calls, weather, extremes>>

\* The except clause of lines 226-231 dropped: the failure is swallowed.
WeatherRaisedNever(w) == FALSE

\* Lines 222-226: whether _stormglass_weather raised.
WeatherRaised(w) == w.raise

\* Lines 222-231: fetch the weather; a failure ends the invocation.
Weather ==
    /\ pc = "weather"
    /\ \E w \in WeatherResponses :
         /\ requests' = Append(requests, [to |-> "weather", raised |-> w.raise])
         /\ IF WeatherRaised(w)
            THEN /\ Return([ok |-> FALSE, stage |-> "stormglass_weather",
                            error |-> "URLError"])
                 /\ UNCHANGED weather
            ELSE /\ weather' = w
                 /\ Goto("tide_extremes")
    /\ UNCHANGED <<storm_key, google_key, arg_date, place, timezone, today, date,
                   start_utc, end_utc, resolve_calls, geo_resp, geocode_info,
                   lat, lng, extremes>>

\* Lines 233-238: fetch the tide extremes; a failure is kept inline.
TideExtremes ==
    /\ pc = "tide_extremes"
    /\ \E x \in TideResponses :
         /\ requests' = Append(requests, [to |-> "tide_extremes", raised |-> x.raise])
         /\ extremes' = IF x.raise
                        THEN [error |-> "URLError", data |-> "None"]
                        ELSE x.payload
    /\ Goto("assemble")
    /\ UNCHANGED <<storm_key, google_key, arg_date, place, timezone, today, date,
                   start_utc, end_utc, resolve_calls, geo_resp, geocode_info,
                   lat, lng, weather>>

\* Lines 283-296: the mapping a successful invocation returns.
SuccessResult ==
    LET hourly == Hourly(HoursOf(weather), timezone)
    IN  [ok |-> TRUE,
         query |-> [date |-> date, timezone |-> timezone],
         location |-> [lat |-> lat, lng |-> lng],
         range_utc |-> [start |-> start_utc, end |-> end_utc],
         summary |-> Summary(hourly),
         hourly |-> hourly,
         tide_extremes |-> extremes,
         raw |-> [stormglass_weather_meta |->
                    IF weather.meta = "absent" THEN "None" ELSE weather.meta]]

\* Lines 240-296: the per-hour loop and the result.
Assemble ==
    /\ pc = "assemble"
    /\ IF AssembleExc(weather) # ""
       THEN Raise(AssembleExc(weather))
       ELSE Return(SuccessResult)
    /\ UNCHANGED <<storm_key, google_key, arg_date, place, timezone, today, date,
                   start_utc, end_utc, resolve_calls, geo_resp, geocode_info,
                   lat, lng, weather, extremes, requests>>

Next ==
    \/ Entry
    \/ TimeRange
    \/ Geocode
    \/ Weather
    \/ TideExtremes
    \/ Assemble

Spec == Init /\ [][Next]_vars

(***************************************************************************)
(* The assembly step on its own: sea_day stands at line 240 after a        *)
(* resolved range, a good geocoding answer and both fetches, and the       *)
(* weather payload is drawn from a wider set than Spec draws it from.      *)
(***************************************************************************)
SumVals == {Null} \cup {Num(x) : x \in 0..MaxVal}

SumEntries ==
    {HourEntry(sw, wt, ws) :
        sw \in SumVals, wt \in {Null, Num(MaxVal)}, ws \in {Absent, Num(1)}}

RECURSIVE SeqsUpTo(_, _)
SeqsUpTo(S, n) ==
    IF n = 0
    THEN {<<>>}
    ELSE LET shorter == SeqsUpTo(S, n - 1)
         IN  shorter \cup {Append(q, x) : q \in {r \in shorter : Len(r) = n - 1}, x \in S}

\* The values a parameter can hold: scalars, and mappings of up to two sources.
EntryVals ==
    {[t |-> "null", n |-> 0], [t |-> "bool", n |-> 0], [t |-> "bool", n |-> 1],
     [t |-> "str", n |-> 0], [t |-> "list", n |-> 0], [t |-> "map", n |-> 0]}
    \cup {[t |-> "num", n |-> x] : x \in 0..MaxVal}

ParamVals ==
    {Absent, Null, Bool(FALSE), Bool(TRUE), Str, List}
    \cup {Num(x) : x \in 0..MaxVal}
    \cup {Map(<<>>)}
    \cup {Map(<<[k |-> "sg", v |-> a]>>) : a \in EntryVals}
    \cup {Map(<<[k |-> "noaa", v |-> a], [k |-> "sg", v |-> b]>>) :
            a \in EntryVals, b \in EntryVals}

AssembleInputs ==
    {WeatherDoc("list", items) : items \in SeqsUpTo(SumEntries, MaxHours)}
    \cup {WeatherDoc("list", <<[HourEntry(Absent, Absent, Absent) EXCEPT !.tide = v]>>) :
            v \in ParamVals}

InitAssemble ==
    /\ storm_key = "sg-key"
    /\ google_key = "gm-key"
    /\ arg_date = "2024-11-03"
    /\ place = " Keelung "
    /\ timezone = "America/Havana"
    /\ today = "2024-06-15"
    /\ pc = "assemble"
    /\ date = "2024-11-03"
    /\ start_utc = day_range_to_utc_timestamps("2024-11-03", "America/Havana").start
    /\ end_utc = day_range_to_utc_timestamps("2024-11-03", "America/Havana").end
    /\ resolve_calls = 1
    /\ geo_resp = GeoGood
    /\ geocode_info = google_geocode_place(" Keelung ", "gm-key", GeoGood).info
    /\ lat = 25
    /\ lng = 121
    /\ weather \in AssembleInputs
    /\ extremes = [data |-> "list", meta |-> "map"]
    /\ requests = <<[to |-> "geocoding", raised |-> FALSE],
                    [to |-> "weather", raised |-> FALSE],
                    [to |-> "tide_extremes", raised |-> FALSE]>>
    /\ outcome = "running"
    /\ exc = ""
    /\ result = NoResult

SpecAssemble == InitAssemble /\ [][Assemble]_vars

(***************************************************************************)
(* Properties.                                                             *)
(***************************************************************************)
Issued(to) == \E i \in DOMAIN requests : requests[i].to = to

RaisedCall(to) == \E i \in DOMAIN requests : requests[i].to = to /\ requests[i].raised

Returned == outcome = "returned"

\* The range has been resolved (a resolved start is never 0 for these dates).
Resolved == storm_key # "" /\ start_utc # 0

\* C1: every result returned with ok = false carries both a "stage" field
\* and an "error" field, whichever failure path produced it.
C1_FailureHasStageAndError ==
    (Returned /\ ~result.ok) => {"stage", "error"} \subseteq DOMAIN result

\* C2: an invocation never ends with an exception raised to the caller,
\* whatever the inputs and whatever the upstream services answer.
C2_NeverRaises == outcome # "raised"

\* C3: once the weather fetch has raised, the invocation has returned
\* ok = false with stage "stormglass_weather", the result has neither
\* "hourly" nor "summary", and no tide-extremes request was issued.
C3_WeatherFailureAborts ==
    RaisedCall("weather") =>
        /\ pc = "done"
        /\ Returned
        /\ ~result.ok
        /\ result.stage = "stormglass_weather"
        /\ "hourly" \notin DOMAIN result
        /\ "summary" \notin DOMAIN result
        /\ ~Issued("tide_extremes")

C3_Witness ==
    /\ pc = "done"
    /\ RaisedCall("weather")
    /\ Issued("geocoding")
    /\ Resolved

\* C4: when the tide-extremes fetch raised (the weather fetch having
\* succeeded), the finished invocation returned ok = true, tide_extremes
\* carries an "error" entry, and hourly and summary are those of the weather
\* payload.
C4_TideFailureNonFatal ==
    (pc = "done" /\ RaisedCall("tide_extremes")) =>
        /\ Returned
        /\ result.ok
        /\ "error" \in DOMAIN result.tide_extremes
        /\ result.hourly = Hourly(HoursOf(weather), timezone)
        /\ result.summary = Summary(result.hourly)

\* C5: with an empty marine-data key no network call is ever issued, and
\* the invocation ends by returning a failure, for any date, place and zone.
C5_NoKeyNoNetwork ==
    storm_key = "" =>
        /\ requests = <<>>
        /\ pc \in {"entry", "done"}
        /\ pc = "done" => (Returned /\ ~result.ok)

C5_Witness ==
    /\ storm_key = ""
    /\ pc = "done"
    /\ Strip(place) # ""
    /\ google_key # ""
    /\ timezone \in ZoneNames

\* The geocoding failures: blank place, empty key, transport or decode error,
\* a status other than "OK", no results, a first result without lat or lng.
GeocodingFailureCase ==
    \/ Strip(place) = ""
    \/ google_key = ""
    \/ geo_resp.raise
    \/ /\ geo_resp.body = "map"
       /\ \/ geo_resp.status # "OK"
          \/ geo_resp.results \in {"absent", "null", "empty"}
          \/ /\ geo_resp.results = "list"
             /\ geo_resp.top = "map"
             /\ \/ geo_resp.geometry \in {"absent", "null"}
                \/ geo_resp.geometry = "map" /\ geo_resp.location \in {"absent", "null"}
                \/ /\ geo_resp.geometry = "map"
                   /\ geo_resp.location = "map"
                   /\ \/ geo_resp.lat.t \in {"absent", "null"}
                      \/ geo_resp.lng.t \in {"absent", "null"}

\* C6: after the geocoding stage, any geocoding failure has made sea_day
\* return ok = false with stage "geocoding", and neither the weather nor the
\* tide-extremes request was issued.
C6_GeocodingFailureShortCircuits ==
    (Resolved /\ pc # "geocode" /\ GeocodingFailureCase) =>
        /\ pc = "done"
        /\ Returned
        /\ ~result.ok
        /\ result.stage = "geocoding"
        /\ "error" \in DOMAIN result
        /\ ~Issued("weather")
        /\ ~Issued("tide_extremes")

C6_Witness ==
    /\ pc = "done"
    /\ Resolved
    /\ Issued("geocoding")
    /\ ~geo_resp.raise
    /\ geo_resp.status = "OK"
    /\ geo_resp.lat.t = "num"
    /\ geo_resp.lng.t = "absent"
    /\ GeocodingFailureCase

\* The supplied date is not empty and does not parse as YYYY-MM-DD.
UnparseableDate ==
    /\ Strip(arg_date) # ""
    /\ \A i \in DOMAIN DateNames : DateNames[i] # Strip(arg_date)

DayNumber(d) == EpochDay[CHOOSE i \in DOMAIN DateNames : DateNames[i] = d]

\* The whole-hour UTC instants whose local date in zone z is day d.
LocalDayInstants(d, z) ==
    {t \in {d * SecPerDay + k * 3600 : k \in -14..38} :
        (t + OffsetAtUtc(t, z)) \div SecPerDay = d}

\* [start, end) is exactly the local day d of zone z.
IsLocalDay(start, end, d, z) ==
    LET day == LocalDayInstants(d, z)
    IN  /\ start \in day
        /\ \A t \in day : start <= t /\ t < end
        /\ end - 3600 \in day
        /\ end - start = 3600 * Cardinality(day)

\* C7: in an invocation that got to resolving the range, an unparseable
\* date with a valid zone is retried exactly once with the current date: the
\* range is that of today's local day, the invocation does not fail at the
\* time-range stage, and a successful result is keyed to today.  When the
\* retry fails too (unknown zone), sea_day returns ok = false and has issued
\* no network call.
C7_DateFallback ==
    /\ (UnparseableDate /\ timezone \in ZoneNames /\ storm_key # ""
            /\ pc \notin {"entry", "time_range"}) =>
          /\ resolve_calls = 2
          /\ date = today
          /\ IsLocalDay(start_utc, end_utc, DayNumber(today), timezone)
          /\ Returned =>
               IF result.ok
               THEN /\ result.query.date = today
                    /\ result.range_utc = [start |-> start_utc, end |-> end_utc]
               ELSE result.stage # "time_range"
    /\ (timezone \notin ZoneNames /\ storm_key # ""
            /\ pc \notin {"entry", "time_range"}) =>
          /\ resolve_calls = 2
          /\ pc = "done"
          /\ Returned
          /\ ~result.ok
          /\ result.stage = "time_range"
          /\ requests = <<>>

C7_Witness ==
    /\ pc = "done"
    /\ UnparseableDate
    /\ timezone \in ZoneNames
    /\ Returned
    /\ result.ok
    /\ result.query.date = today
    /\ result.query.date # Strip(arg_date)
    /\ resolve_calls = 2

Params == {"swellHeight", "waterTemperature", "windSpeed"}

\* The non-missing values extracted for a parameter over the hourly entries.
Samples(hourly, param) ==
    {hourly[i][param].v : i \in {j \in DOMAIN hourly : hourly[j][param].t = "float"}}

MinMaxOfSamples(entry, S) ==
    /\ entry.t = "dict"
    /\ entry.min \in S
    /\ entry.max \in S
    /\ \A x \in S : entry.min <= x /\ x <= entry.max

\* C8 as stated: the summary of a successful result has, per parameter, the
\* min and max of exactly the non-missing values, and no entry at all for a
\* parameter without a valid sample.
C8_SummaryAbsentWhenEmpty ==
    (Returned /\ result.ok) =>
        \A p \in Params :
            IF Samples(result.hourly, p) = {}
            THEN p \notin DOMAIN result.summary
            ELSE /\ p \in DOMAIN result.summary
                 /\ MinMaxOfSamples(result.summary[p], Samples(result.hourly, p))

\* C8 as amended: the summary of a successful result has an entry for each
\* of the three parameters: the min and max of exactly the non-missing
\* values, or None for a parameter without a valid sample.
C8_SummaryNoneWhenEmpty ==
    (Returned /\ result.ok) =>
        /\ DOMAIN result.summary = Params
        /\ \A p \in Params :
              IF Samples(result.hourly, p) = {}
              THEN result.summary[p].t = "None"
              ELSE MinMaxOfSamples(result.summary[p], Samples(result.hourly, p))

C8_Witness ==
    /\ Returned
    /\ result.ok
    /\ Len(result.hourly) = 3
    /\ \E i \in DOMAIN result.hourly : result.hourly[i].swellHeight.t = "None"
    /\ result.summary.swellHeight.t = "dict"
    /\ result.summary.swellHeight.min = 1
    /\ result.summary.swellHeight.max = 2
    /\ result.summary.windSpeed.t = "None"

\* What the claim says _pick_value returns: the number for a plain number,
\* the first key's value for a non-empty mapping when that value is a number,
\* nothing otherwise.
ClaimedPick(x) ==
    IF x.t = "num" THEN FloatV(x.n)
    ELSE IF x.t = "map" /\ Len(x.m) > 0 /\ x.m[1].v.t = "num" THEN FloatV(x.m[1].v.n)
    ELSE NoneV

\* C9: the value extracted for each hour's tide is the number itself for a
\* plain number, the first key's value for a non-empty mapping, and None for
\* a missing, null, empty or non-numeric input; never zero for missing data.
C9_PickValue ==
    (Returned /\ result.ok) =>
        \A i \in DOMAIN result.hourly :
            result.hourly[i].tide = ClaimedPick(Get(weather.hours.items[i].tide))

\* C10: a resolved range is exactly the local day of the date in the zone:
\* it starts at the first instant of that local date, ends at the first
\* instant of the next, and its length is the day's true duration.
C10_RangeIsLocalDay ==
    (Resolved /\ pc \notin {"entry", "time_range"}) =>
        IsLocalDay(start_utc, end_utc, DayNumber(date), timezone)

C10_Witness ==
    /\ Resolved
    /\ pc = "geocode"
    /\ end_utc - start_utc = 25 * 3600
    /\ timezone = "America/Havana"

====
